---- MODULE Spec2Model ----
(***************************************************************************)
(* Model of the ssth backend: the persistence gateway (data_handler.py)    *)
(* and the request handlers (main.py).                                     *)
(*                                                                         *)
(* Strings of the program are TLA+ strings.  A bcrypt digest is the record *)
(* [salt, hash]: the salt the digest string embeds and the one-way image   *)
(* of (salt, value), written as the term <<salt, value>>.  Two digests are *)
(* equal exactly when salt and value agree, which is the collision-free    *)
(* idealisation of the hash; bcrypt's handling of values longer than 72    *)
(* bytes is outside the model.                                             *)
(***************************************************************************)
EXTENDS Naturals, Sequences, FiniteSets, TLC

\* ------------------------------------------------------------------ bounds

\* How many values of the 900,000-value identifier space the model draws.
NumIds == 5

\* How many teams the model lets the teams table hold.
MaxTeams == 2

\* How many TeamDocument rows the model lets the connection write.
MaxDocs == 2

\* ------------------------------------------------------- program constants

\* secrets.randbelow(1_000_000 - 100_000) + 100_000: the least identifier.
IdBase == 100000

\* if response >= 4: raise TeamFull()
TeamCapacity == 4

\* if len(request.password) < 8
MinPasswordLen == 8

\* ------------------------------------------------------------------ inputs

Emails == {"a@x.com", "b@x.com"}

\* Passwords a register request may carry: one acceptable, one too short.
RegisterPasswords == {"password1", "short"}

\* Passwords a login request may carry.
LoginPasswords == {"password1", "password2"}

TeamNames == {"Team A"}

\* The member fields of an add-team-member request.
MemberInputs ==
    { [name |-> "Ann", email |-> "ann@x.com", phone_number |-> "555",
       grade |-> "9", school_name |-> "S", city |-> "C", pin_code |-> "1"] }

\* The salts bcrypt.gensalt() may return.
Salts == {"s1", "s2"}

\* The salts drawn when a password is hashed.  No operation compares the
\* password digests of two users, so one salt stands for all.
PasswordSalts == {"s1"}

\* ---------------------------------------------------------------- helpers

DigitChar == <<"0", "1", "2", "3", "4", "5", "6", "7", "8", "9">>

\* str(n) for a natural number n.
RECURSIVE str(_)
str(n) == IF n < 10 THEN DigitChar[n + 1]
          ELSE str(n \div 10) \o DigitChar[(n % 10) + 1]

\* The values secrets.randbelow may return in the model.
RandBelow == 0 .. (NumIds - 1)

\* str(secrets.randbelow(...) + 100_000) for each drawn value.
IdOf == [r \in RandBelow |-> str(r + IdBase)]

\* Every identifier the model can generate.
GenIds == { IdOf[r] : r \in RandBelow }

\* The identifiers __generate_id may return when the table's identifiers
\* are `used`: any identifier already in use (a collision) or the least
\* unused one.  Identifiers are opaque, so one fresh value stands for all.
generate_id(used) ==
    { IdOf[r] : r \in
        { r \in RandBelow :
            \/ IdOf[r] \in used
            \/ \A q \in 0 .. (r - 1) : IdOf[q] \in used } }

\* bcrypt.hashpw(value, salt): the digest embeds the salt.
hashpw(value, salt) == [salt |-> salt, hash |-> <<salt, value>>]

\* A digest string bcrypt cannot parse (empty or garbled): "Invalid salt".
MalformedDigest == [salt |-> "", hash |-> <<>>]

\* bcrypt.checkpw(value, digest): raises ValueError on a digest whose salt
\* does not parse, else recomputes with the embedded salt and compares.
checkpw(value, digest) ==
    IF digest.salt \notin Salts
    THEN [raised |-> "ValueError", value |-> FALSE]
    ELSE [raised |-> "", value |-> (hashpw(value, digest.salt) = digest)]

\* ------------------------------------------------------------------- state

VARIABLES
    users,          \* table users(id, email, password): committed rows
    teams,          \* table teams(id, user_id, name): committed rows
    team_members,   \* table team_members(id, team_id, ...): committed rows
    txn,            \* per server worker: its add_team_member call in flight
    documents,      \* table TeamDocument(id, team_id, path): committed rows
    pending         \* rows inserted on the connection and not yet committed

store == <<users, teams, team_members>>
docs == <<documents, pending>>
vars == <<users, teams, team_members, txn, documents, pending>>

\* ------------------------------------------------------------ store schema

\* users: primary key id, unique email.  The insert is rejected with
\* mariadb.IntegrityError when either is taken.
UsersAccepts(row) ==
    /\ \A u \in users : u.id # row.id
    /\ \A u \in users : u.email # row.email

\* teams: primary key id, foreign key user_id -> users.id.
TeamsAccepts(row) ==
    /\ \A t \in teams : t.id # row.id
    /\ \E u \in users : u.id = row.user_id

\* team_members: primary key id, checked against the rows `rows`.
TeamMembersAccepts(rows, row) == \A m \in rows : m.id # row.id

\* TeamDocument: primary key id, checked against the committed rows and
\* the rows the connection's open transaction holds.
DocumentsAccepts(row) == \A d \in documents \cup pending : d.id # row.id

\* ----------------------------------------------------- persistence gateway
\* Every gateway operation returns [raised, value] and, when it writes, the
\* table as it stands after the call (the insert and its commit).

Return(v) == [raised |-> "", value |-> v]
Raise(e) == [raised |-> e, value |-> ""]

\* DataHandler.__hash_password
hash_password(password, salt) == hashpw(password, salt)

\* register_user that replaces the row of a taken email instead of failing.
register_user_Replace(email, password, user_id, salt) ==
    LET row == [id |-> user_id, email |-> email,
                password |-> hash_password(password, salt)]
    IN  [raised |-> "", value |-> user_id,
         users |-> { u \in users : u.email # email /\ u.id # user_id } \cup {row}]

\* DataHandler.register_user, with the identifier and the salt drawn.
register_user(email, password, user_id, salt) ==
    LET row == [id |-> user_id, email |-> email,
                password |-> hash_password(password, salt)]
    IN  IF ~UsersAccepts(row)
        THEN [raised |-> "UserMailExists", value |-> "", users |-> users]
        ELSE [raised |-> "", value |-> user_id, users |-> users \cup {row}]

\* verify_password that finds the row and does not compare the password.
verify_password_on_NoCompare(rows, email, password) ==
    IF { u \in rows : u.email = email } = {} THEN Raise("InvalidEmail")
    ELSE [raised |-> "", value |-> TRUE]

\* DataHandler.verify_password, reading the users rows `rows`.
verify_password_on(rows, email, password) ==
    LET hashed_password == { u.password : u \in { u \in rows : u.email = email } }
    IN  IF hashed_password = {}
        THEN Raise("InvalidEmail")
        ELSE checkpw(password, CHOOSE h \in hashed_password : TRUE)

\* DataHandler.verify_password
verify_password(email, password) == verify_password_on(users, email, password)

\* get_user_id without the WHERE clause: the first row of users answers.
get_user_id_First(email) ==
    IF users = {} THEN Raise("InvalidEmail")
    ELSE Return((CHOOSE u \in users : TRUE).id)

\* DataHandler.get_user_id
get_user_id(email) ==
    LET id == { u.id : u \in { u \in users : u.email = email } }
    IN  IF id = {} THEN Raise("InvalidEmail")
        ELSE Return(CHOOSE i \in id : TRUE)

\* create_team that replaces the row of a taken team id instead of failing.
DataHandler_create_team_Overwrite(user_id, name, team_id) ==
    LET row == [id |-> team_id, user_id |-> user_id, name |-> name]
    IN  IF \A u \in users : u.id # user_id
        THEN [raised |-> "UserMailExists", value |-> "", teams |-> teams]
        ELSE [raised |-> "", value |-> team_id,
              teams |-> { t \in teams : t.id # team_id } \cup {row}]

\* DataHandler.create_team, with the identifier drawn.
DataHandler_create_team(user_id, name, team_id) ==
    LET row == [id |-> team_id, user_id |-> user_id, name |-> name]
    IN  IF ~TeamsAccepts(row)
        THEN [raised |-> "UserMailExists", value |-> "", teams |-> teams]
        ELSE [raised |-> "", value |-> team_id, teams |-> teams \cup {row}]

\* DataHandler.get_user_id_for_team
get_user_id_for_team(team_id) ==
    LET user_id == { t.user_id : t \in { t \in teams : t.id = team_id } }
    IN  IF user_id = {} THEN Raise("InvalidTeamId")
        ELSE Return(CHOOSE u \in user_id : TRUE)

\* SELECT 1 FROM teams WHERE id = ?  (add_team_member, step a)
TeamExists(team_id) == \E t \in teams : t.id = team_id

\* MemberCount without the WHERE clause: every team's rows are counted.
MemberCount_AllTeams(rows, team_id) == Cardinality(rows)

\* SELECT 1 FROM team_members WHERE team_id = ?  (add_team_member, step b)
MemberCount(rows, team_id) == Cardinality({ m \in rows : m.team_id = team_id })

\* IsFull with the comparison off by one.
IsFull_OffByOne(count) == count > TeamCapacity

\* if response >= 4: raise TeamFull()
IsFull(count) == count >= TeamCapacity

\* The row add_team_member inserts (step c).
MemberRow(member_id, team_id, fields) ==
    [id |-> member_id, team_id |-> team_id, name |-> fields.name,
     email |-> fields.email, phone_number |-> fields.phone_number,
     grade |-> fields.grade, school_name |-> fields.school_name,
     city |-> fields.city, pin_code |-> fields.pin_code]

\* add_team_member that inserts and commits before it counts the rows.
DataHandler_add_team_member_InsertFirst(team_id, fields, member_id) ==
    LET row == MemberRow(member_id, team_id, fields)
    IN  IF ~TeamExists(team_id)
        THEN [raised |-> "InvalidTeamId", value |-> "",
              team_members |-> team_members]
        ELSE IF ~TeamMembersAccepts(team_members, row)
        THEN [raised |-> "IntegrityError", value |-> "",
              team_members |-> team_members]
        ELSE IF IsFull(MemberCount(team_members, team_id))
        THEN [raised |-> "TeamFull", value |-> "",
              team_members |-> team_members \cup {row}]
        ELSE [raised |-> "", value |-> member_id,
              team_members |-> team_members \cup {row}]

\* DataHandler.add_team_member on one connection with no other statement
\* interleaved, with the identifier drawn.
DataHandler_add_team_member(team_id, fields, member_id) ==
    LET row == MemberRow(member_id, team_id, fields)
    IN  IF ~TeamExists(team_id)
        THEN [raised |-> "InvalidTeamId", value |-> "",
              team_members |-> team_members]
        ELSE IF IsFull(MemberCount(team_members, team_id))
        THEN [raised |-> "TeamFull", value |-> "",
              team_members |-> team_members]
        ELSE IF ~TeamMembersAccepts(team_members, row)
        THEN [raised |-> "IntegrityError", value |-> "",
              team_members |-> team_members]
        ELSE [raised |-> "", value |-> member_id,
              team_members |-> team_members \cup {row}]

\* get_user_teams without the WHERE clause: every team is listed.
get_user_teams_All(user_id) == { [id |-> t.id, name |-> t.name] : t \in teams }

\* DataHandler.get_user_teams: the Team(id, name) rows of a user, as a set
\* (the list's order is the store's).
get_user_teams(user_id) ==
    { [id |-> t.id, name |-> t.name] : t \in { t \in teams : t.user_id = user_id } }

\* DataHandler.get_team_members: the member ids of a team, as a set.
DataHandler_get_team_members(team_id) ==
    { m.id : m \in { m \in team_members : m.team_id = team_id } }

\* TeamMemberDetails of a row.
Details(m) ==
    [name |-> m.name, email |-> m.email, phone_number |-> m.phone_number,
     grade |-> m.grade, school_name |-> m.school_name, city |-> m.city,
     pin_code |-> m.pin_code, team_id |-> m.team_id]

\* get_team_member_details that selects by member id alone.
DataHandler_get_team_member_details_ByIdOnly(team_id, team_member_id) ==
    LET rows == { m \in team_members : m.id = team_member_id }
    IN  IF rows = {} THEN Raise("NoSuchTeamMember")
        ELSE Return(Details(CHOOSE m \in rows : TRUE))

\* DataHandler.get_team_member_details
DataHandler_get_team_member_details(team_id, team_member_id) ==
    LET rows == { m \in team_members :
                    m.id = team_member_id /\ m.team_id = team_id }
    IN  IF rows = {} THEN Raise("NoSuchTeamMember")
        ELSE Return(Details(CHOOSE m \in rows : TRUE))

\* The paths an add_document call may carry.
Paths == {"/doc/a"}

\* DataHandler.add_document, with the identifier drawn: the insert, and no
\* commit.  `pending` is the connection's open transaction after the call.
add_document(team_id, path, doc_id) ==
    LET row == [id |-> doc_id, team_id |-> team_id, path |-> path]
    IN  IF ~DocumentsAccepts(row)
        THEN [raised |-> "IntegrityError", value |-> "", pending |-> pending]
        ELSE [raised |-> "", value |-> doc_id, pending |-> pending \cup {row}]

\* ------------------------------------------------------- request handlers
\* A handler returns what the request leaves behind: the response, the
\* gateway calls it made, the tables, and the cookies the response sets.
\* The tables are those the gateway calls left, whether they returned or
\* raised.

\* A response body of `endpoint`, and the outcome of an exception the
\* handler does not catch (the framework answers 500).
Body(endpoint, fields) ==
    [endpoint |-> endpoint, unhandled |-> ""] @@ fields
Unhandled(endpoint, exception) ==
    [endpoint |-> endpoint, unhandled |-> exception]

KeepCookies == "keep"
SetCookies == "set"
DeleteCookies == "delete"

Outcome(resp, calls) ==
    [response |-> resp, queries |-> calls, users |-> users, teams |-> teams,
     team_members |-> team_members, cookie_op |-> KeepCookies,
     set_cookie |-> {}]

\* response.set_cookie("user_id", id); response.set_cookie("hashed_user_id",
\* bcrypt.hashpw(id, bcrypt.gensalt()))
IssueToken(id, salt) == [user_id |-> id, hashed_user_id |-> hashpw(id, salt)]

\* AssertEqual with assertions stripped: the check always passes.
AssertEqual_Stripped(a, b) == TRUE

\* assert a == b: passes when the operands are equal, AssertionError
\* otherwise.
AssertEqual(a, b) == a = b

\* get_id without the test of checkpw's result.
get_id_Unchecked(c) ==
    LET correct == checkpw(c.user_id, c.hashed_user_id)
    IN  IF correct.raised = "ValueError" THEN Raise("AuthenticationFailure")
        ELSE Return(c.user_id)

\* get_id that also looks the user up: it accepts only a registered id.
get_id_IfRegistered(c) ==
    LET correct == checkpw(c.user_id, c.hashed_user_id)
    IN  IF correct.raised = "ValueError" THEN Raise("AuthenticationFailure")
        ELSE IF ~correct.value THEN Raise("AuthenticationFailure")
        ELSE IF \A u \in users : u.id # c.user_id
        THEN Raise("AuthenticationFailure")
        ELSE Return(c.user_id)

\* get_id
get_id(c) ==
    LET correct == checkpw(c.user_id, c.hashed_user_id)
    IN  IF correct.raised = "ValueError" THEN Raise("AuthenticationFailure")
        ELSE IF ~correct.value THEN Raise("AuthenticationFailure")
        ELSE Return(c.user_id)

\* POST /api/get-id
get_current_id(c) ==
    LET correct == checkpw(c.user_id, c.hashed_user_id)
    IN  IF correct.raised # ""
        THEN Outcome(Unhandled("get-id", correct.raised), <<>>)
        ELSE IF ~correct.value
        THEN Outcome(Body("get-id", [id |-> "-1", success |-> FALSE]), <<>>)
        ELSE Outcome(Body("get-id", [id |-> c.user_id, success |-> TRUE]), <<>>)

\* POST /api/register, with the identifier and the two salts drawn.
register(request, user_id, pw_salt, token_salt) ==
    IF Len(request.password) < MinPasswordLen
    THEN Outcome(Body("register",
            [id |-> "-1", success |-> FALSE, email_unique |-> TRUE,
             password_acceptable |-> FALSE]), <<>>)
    ELSE LET r == register_user(request.email, request.password, user_id, pw_salt)
         IN  IF r.raised = "UserMailExists"
             THEN [Outcome(Body("register",
                    [id |-> "-1", success |-> FALSE, email_unique |-> FALSE,
                     password_acceptable |-> TRUE]), <<"register_user">>)
                   EXCEPT !.users = r.users]
             ELSE [Outcome(Body("register",
                    [id |-> r.value, success |-> TRUE, email_unique |-> TRUE,
                     password_acceptable |-> TRUE]), <<"register_user">>)
                   EXCEPT !.users = r.users,
                          !.cookie_op = SetCookies,
                          !.set_cookie = {IssueToken(r.value, token_salt)}]

\* POST /api/login, with the salt drawn.
login(request, token_salt) ==
    LET password_correct == verify_password(request.email, request.password)
    IN  IF password_correct.raised = "InvalidEmail"
        THEN Outcome(Body("login",
                [success |-> FALSE, email_correct |-> FALSE,
                 password_correct |-> TRUE]), <<"verify_password">>)
        ELSE IF password_correct.raised # ""
        THEN Outcome(Unhandled("login", password_correct.raised),
                     <<"verify_password">>)
        ELSE IF ~password_correct.value
        THEN Outcome(Body("login",
                [success |-> FALSE, email_correct |-> TRUE,
                 password_correct |-> FALSE]), <<"verify_password">>)
        ELSE LET id == get_user_id(request.email)
             IN  IF id.raised = "InvalidEmail"
                 THEN Outcome(Body("login",
                        [success |-> FALSE, email_correct |-> FALSE,
                         password_correct |-> TRUE]),
                        <<"verify_password", "get_user_id">>)
                 ELSE [Outcome(Body("login",
                        [success |-> TRUE, email_correct |-> TRUE,
                         password_correct |-> TRUE]),
                        <<"verify_password", "get_user_id">>)
                       EXCEPT !.cookie_op = SetCookies,
                              !.set_cookie = {IssueToken(id.value, token_salt)}]

\* POST /api/logout
logout ==
    [Outcome(Body("logout", <<>>), <<>>)
     EXCEPT !.cookie_op = DeleteCookies]

\* create-team that stores the first user of the table as the owner, not
\* the user the token verifies.
create_team_FirstUser(c, request, team_id) ==
    LET user_id == get_id(c)
        owner == IF users = {} THEN user_id.value
                 ELSE (CHOOSE u \in users : TRUE).id
    IN  IF user_id.raised = "AuthenticationFailure"
        THEN Outcome(Body("create-team",
                [team_id |-> "-1", success |-> FALSE, logged_in |-> FALSE]), <<>>)
        ELSE LET id == DataHandler_create_team(owner, request.team_name, team_id)
             IN  IF id.raised # ""
                 THEN Outcome(Unhandled("create-team", id.raised),
                              <<"create_team">>)
                 ELSE [Outcome(Body("create-team",
                        [team_id |-> id.value, success |-> TRUE,
                         logged_in |-> TRUE]), <<"create_team">>)
                       EXCEPT !.teams = id.teams]

\* POST /api/create-team, with the identifier drawn.  The body's
\* team_id=-1 is written "-1".
create_team(c, request, team_id) ==
    LET user_id == get_id(c)
    IN  IF user_id.raised = "AuthenticationFailure"
        THEN Outcome(Body("create-team",
                [team_id |-> "-1", success |-> FALSE, logged_in |-> FALSE]), <<>>)
        ELSE LET id == DataHandler_create_team(user_id.value, request.team_name,
                                               team_id)
             IN  IF id.raised # ""
                 THEN [Outcome(Unhandled("create-team", id.raised),
                               <<"create_team">>)
                       EXCEPT !.teams = id.teams]
                 ELSE [Outcome(Body("create-team",
                        [team_id |-> id.value, success |-> TRUE,
                         logged_in |-> TRUE]), <<"create_team">>)
                       EXCEPT !.teams = id.teams]

AddTeamMemberResponse(success, logged_in, space_available, team_created, user_team_match) ==
    Body("add-team-member",
         [success |-> success, logged_in |-> logged_in,
          space_available |-> space_available, team_created |-> team_created,
          user_team_match |-> user_team_match])

\* POST /api/add-team-member, with the identifier drawn.
add_team_member(c, request, member_id) ==
    LET user_id == get_id(c)
        owner == get_user_id_for_team(request.team_id)
        r == DataHandler_add_team_member(request.team_id, request.fields,
                                         member_id)
    IN  IF user_id.raised = "AuthenticationFailure"
        THEN Outcome(AddTeamMemberResponse(FALSE, FALSE, TRUE, TRUE, TRUE), <<>>)
        ELSE IF owner.raised = "InvalidTeamId"
        THEN Outcome(AddTeamMemberResponse(FALSE, TRUE, TRUE, FALSE, FALSE),
                     <<"get_user_id_for_team">>)
        ELSE IF ~AssertEqual(user_id.value, owner.value)
        THEN Outcome(AddTeamMemberResponse(FALSE, TRUE, TRUE, TRUE, FALSE),
                     <<"get_user_id_for_team">>)
        ELSE IF r.raised = "TeamFull"
        THEN [Outcome(AddTeamMemberResponse(FALSE, TRUE, FALSE, TRUE, TRUE),
                      <<"get_user_id_for_team", "add_team_member">>)
              EXCEPT !.team_members = r.team_members]
        ELSE IF r.raised = "InvalidTeamId"
        THEN [Outcome(AddTeamMemberResponse(FALSE, TRUE, FALSE, FALSE, TRUE),
                      <<"get_user_id_for_team", "add_team_member">>)
              EXCEPT !.team_members = r.team_members]
        ELSE IF r.raised # ""
        THEN [Outcome(Unhandled("add-team-member", r.raised),
                      <<"get_user_id_for_team", "add_team_member">>)
              EXCEPT !.team_members = r.team_members]
        ELSE [Outcome(AddTeamMemberResponse(TRUE, TRUE, TRUE, TRUE, TRUE),
                      <<"get_user_id_for_team", "add_team_member">>)
              EXCEPT !.team_members = r.team_members]

\* POST /api/get-teams
get_teams(c) ==
    LET user_id == get_id(c)
    IN  IF user_id.raised = "AuthenticationFailure"
        THEN Outcome(Body("get-teams",
                [team_ids |-> {}, success |-> FALSE, logged_in |-> FALSE]), <<>>)
        ELSE Outcome(Body("get-teams",
                [team_ids |-> get_user_teams(user_id.value), success |-> TRUE,
                 logged_in |-> TRUE]), <<"get_user_teams">>)

\* POST /api/get-team-members.  The assert evaluates its left operand, the
\* gateway call, before get_id.
get_team_members(c, request) ==
    LET owner == get_user_id_for_team(request.team_id)
        user_id == get_id(c)
    IN  IF owner.raised # ""
        THEN Outcome(Unhandled("get-team-members", owner.raised),
                     <<"get_user_id_for_team">>)
        ELSE IF user_id.raised = "AuthenticationFailure"
        THEN Outcome(Body("get-team-members",
                [team_member_ids |-> {}, success |-> FALSE,
                 logged_in |-> FALSE, user_team_match |-> TRUE]),
                <<"get_user_id_for_team">>)
        ELSE IF ~AssertEqual(owner.value, user_id.value)
        THEN Outcome(Body("get-team-members",
                [team_member_ids |-> {}, success |-> FALSE,
                 logged_in |-> TRUE, user_team_match |-> FALSE]),
                <<"get_user_id_for_team">>)
        ELSE Outcome(Body("get-team-members",
                [team_member_ids |-> DataHandler_get_team_members(request.team_id),
                 success |-> TRUE, logged_in |-> TRUE,
                 user_team_match |-> TRUE]),
                <<"get_user_id_for_team", "get_team_members">>)

\* team_member_details=None
None == [name |-> "", email |-> "", phone_number |-> "", grade |-> "",
         school_name |-> "", city |-> "", pin_code |-> "", team_id |-> ""]

GetTeamMemberDetailsResponse(details, success, logged_in, user_team_match, team_member_exists) ==
    Body("get-team-member-details",
         [team_member_details |-> details, success |-> success,
          logged_in |-> logged_in, user_team_match |-> user_team_match,
          team_member_exists |-> team_member_exists])

\* POST /api/get-team-member-details
get_team_member_details(c, request) ==
    LET owner == get_user_id_for_team(request.team_id)
        user_id == get_id(c)
        d == DataHandler_get_team_member_details(request.team_id,
                                                 request.team_member_id)
    IN  IF owner.raised # ""
        THEN Outcome(Unhandled("get-team-member-details", owner.raised),
                     <<"get_user_id_for_team">>)
        ELSE IF user_id.raised = "AuthenticationFailure"
        THEN Outcome(GetTeamMemberDetailsResponse(None, FALSE, FALSE, TRUE, TRUE),
                     <<"get_user_id_for_team">>)
        ELSE IF ~AssertEqual(owner.value, user_id.value)
        THEN Outcome(GetTeamMemberDetailsResponse(None, FALSE, TRUE, FALSE, TRUE),
                     <<"get_user_id_for_team">>)
        ELSE IF d.raised = "NoSuchTeamMember"
        THEN Outcome(GetTeamMemberDetailsResponse(None, FALSE, TRUE, TRUE, FALSE),
                     <<"get_user_id_for_team", "get_team_member_details">>)
        ELSE Outcome(GetTeamMemberDetailsResponse(d.value, TRUE, TRUE, TRUE, TRUE),
                     <<"get_user_id_for_team", "get_team_member_details">>)

\* ---------------------------------------------------------- request inputs

\* The user_id cookie values a request may carry: the identifiers the users
\* table can hold, and the empty string.
CookieUserIds == {str(IdBase), str(IdBase + 1), ""}

\* The hashed_user_id cookie values a request may carry: every digest of
\* such a user_id (bcrypt has no server secret, so any client can compute
\* them) and a digest that does not parse.
CookieProofs ==
    { hashpw(u, s) : u \in CookieUserIds, s \in Salts } \cup {MalformedDigest}

AllCookies ==
    { [user_id |-> u, hashed_user_id |-> d] : u \in CookieUserIds,
                                              d \in CookieProofs }

\* The cookies of the requests the model sends: a token for each user id,
\* a proof of another identifier, and a proof that does not parse.
RequestCookies ==
    { IssueToken(u, "s1") : u \in CookieUserIds }
    \cup { [user_id |-> str(IdBase), hashed_user_id |-> hashpw(str(IdBase + 1), "s2")],
           [user_id |-> str(IdBase), hashed_user_id |-> MalformedDigest] }

\* The team ids a request may name: those the teams table can hold and one
\* more.
TeamIdInputs == { str(IdBase + i) : i \in 0 .. MaxTeams }

\* The member ids a get-team-member-details request may name.
MemberIdInputs == {str(IdBase), str(IdBase + 1)}

RegisterRequests ==
    { [email |-> e, password |-> p] : e \in Emails, p \in RegisterPasswords }
LoginRequests ==
    { [email |-> e, password |-> p] : e \in Emails, p \in LoginPasswords }
CreateTeamRequests == { [team_name |-> n] : n \in TeamNames }
AddTeamMemberRequests ==
    { [team_id |-> t, fields |-> f] : t \in TeamIdInputs, f \in MemberInputs }
GetTeamMemberRequests == { [team_id |-> t] : t \in TeamIdInputs }
GetTeamMemberDetailsRequests ==
    { [team_id |-> t, team_member_id |-> m] : t \in TeamIdInputs,
                                              m \in MemberIdInputs }

Ids(rows) == { r.id : r \in rows }

\* ----------------------------------------------------------------- actions

\* Server worker processes, each with its own DataHandler and connection.
NumWorkers == 2
Workers == 1 .. NumWorkers

\* A worker with no add_team_member call in flight.
Idle == [pc |-> "idle", team_id |-> "", member_id |-> ""]

Init ==
    /\ users = {}
    /\ teams = {}
    /\ team_members = {}
    /\ txn = [w \in Workers |-> Idle]
    /\ documents = {}
    /\ pending = {}

\* self.__connection.commit(): everything the connection's open transaction
\* holds becomes committed.
Commit ==
    /\ documents' = documents \cup pending
    /\ pending' = {}

\* The state a handled request leaves: the tables as committed.  The server
\* keeps no session; the response and its cookies go to the client.  Only a
\* gateway call that inserted its row reaches commit().
Apply(o) ==
    /\ users' = o.users
    /\ teams' = o.teams
    /\ team_members' = o.team_members
    /\ IF <<o.users, o.teams, o.team_members>> # store
       THEN Commit
       ELSE UNCHANGED docs
    /\ UNCHANGED txn

GetCurrentId == \E c \in RequestCookies : Apply(get_current_id(c))

Register ==
    \E request \in RegisterRequests, id \in generate_id(Ids(users)),
       pw_salt \in PasswordSalts, token_salt \in Salts :
        Apply(register(request, id, pw_salt, token_salt))

Login ==
    \E request \in LoginRequests, token_salt \in Salts :
        Apply(login(request, token_salt))

Logout == Apply(logout)

CreateTeam ==
    /\ Cardinality(teams) < MaxTeams
    /\ \E c \in RequestCookies, request \in CreateTeamRequests,
          id \in generate_id(Ids(teams)) :
            Apply(create_team(c, request, id))

AddTeamMember ==
    \E c \in RequestCookies, request \in AddTeamMemberRequests,
       id \in generate_id(Ids(team_members)) :
        Apply(add_team_member(c, request, id))

GetTeams == \E c \in RequestCookies : Apply(get_teams(c))

GetTeamMembers ==
    \E c \in RequestCookies, request \in GetTeamMemberRequests :
        Apply(get_team_members(c, request))

GetTeamMemberDetails ==
    \E c \in RequestCookies, request \in GetTeamMemberDetailsRequests :
        Apply(get_team_member_details(c, request))

\* One server process, one connection: requests are handled one at a time.
Next ==
    \/ GetCurrentId
    \/ Register
    \/ Login
    \/ Logout
    \/ CreateTeam
    \/ AddTeamMember
    \/ GetTeams
    \/ GetTeamMembers
    \/ GetTeamMemberDetails

Spec == Init /\ [][Next]_vars

\* ------------------------------------------- concurrent add_team_member
\* Several server workers, each a process with its own connection, handle
\* add-team-member requests at once.  DataHandler.add_team_member issues
\* three statements and a commit; the code takes no lock and sets no
\* isolation level, so the statements of two workers interleave and each
\* SELECT reads the rows committed so far.

\* add_team_member (main.py) reaches the gateway call: the token verifies
\* and names the owner of the team.
ReachesGateway(c, request) ==
    /\ get_id(c).raised = ""
    /\ get_user_id_for_team(request.team_id).raised = ""
    /\ AssertEqual(get_id(c).value, get_user_id_for_team(request.team_id).value)

\* The member ids of the calls in flight.
InFlightIds == { txn[w].member_id : w \in { w \in Workers : txn[w].pc # "idle" } }

\* The handler's checks pass and the gateway call starts: member_id is drawn.
ATM_Begin(w) ==
    /\ txn[w].pc = "idle"
    /\ \E c \in RequestCookies, request \in AddTeamMemberRequests,
          id \in generate_id(Ids(team_members) \cup InFlightIds) :
            /\ ReachesGateway(c, request)
            /\ txn' = [txn EXCEPT ![w] =
                        [pc |-> "check_team", team_id |-> request.team_id,
                         member_id |-> id]]
    /\ UNCHANGED <<store, docs>>

\* Step (a): SELECT 1 FROM teams WHERE id = ?; InvalidTeamId when empty.
ATM_CheckTeam(w) ==
    /\ txn[w].pc = "check_team"
    /\ txn' = [txn EXCEPT ![w] =
                IF TeamExists(txn[w].team_id)
                THEN [txn[w] EXCEPT !.pc = "count"]
                ELSE Idle]
    /\ UNCHANGED <<store, docs>>

\* Step (b): count the team's rows; TeamFull when 4 or more.
ATM_Count(w) ==
    /\ txn[w].pc = "count"
    /\ LET response == MemberCount(team_members, txn[w].team_id)
       IN  txn' = [txn EXCEPT ![w] =
                    IF IsFull(response) THEN Idle
                    ELSE [txn[w] EXCEPT !.pc = "insert"]]
    /\ UNCHANGED <<store, docs>>

\* Step (c): INSERT INTO team_members.  The row stays uncommitted on the
\* worker's connection; a duplicate key raises IntegrityError; an insert
\* of a key another open transaction inserted waits for that transaction.
ATM_Insert(w) ==
    /\ txn[w].pc = "insert"
    /\ \A v \in Workers \ {w} :
         ~(txn[v].pc = "commit" /\ txn[v].member_id = txn[w].member_id)
    /\ txn' = [txn EXCEPT ![w] =
                IF TeamMembersAccepts(team_members,
                        MemberRow(txn[w].member_id, txn[w].team_id,
                                  CHOOSE f \in MemberInputs : TRUE))
                THEN [txn[w] EXCEPT !.pc = "commit"]
                ELSE Idle]
    /\ UNCHANGED <<store, docs>>

\* self.__connection.commit(): the inserted row becomes visible to all.
ATM_Commit(w) ==
    /\ txn[w].pc = "commit"
    /\ team_members' = team_members \cup
            { MemberRow(txn[w].member_id, txn[w].team_id,
                        CHOOSE f \in MemberInputs : TRUE) }
    /\ txn' = [txn EXCEPT ![w] = Idle]
    /\ UNCHANGED <<users, teams, docs>>

\* A state the single-worker server reaches: one user, one team of theirs,
\* and up to TeamCapacity members added one request at a time.
InitConc ==
    /\ users = { [id |-> IdOf[0], email |-> "a@x.com",
                  password |-> hash_password("password1", "s1")] }
    /\ teams = { [id |-> IdOf[0], user_id |-> IdOf[0], name |-> "Team A"] }
    /\ \E n \in 0 .. TeamCapacity :
         team_members =
            { MemberRow(IdOf[i], IdOf[0], CHOOSE f \in MemberInputs : TRUE) :
                i \in 0 .. (n - 1) }
    /\ txn = [w \in Workers |-> Idle]
    /\ documents = {}
    /\ pending = {}

NextConc ==
    \/ \E w \in Workers : ATM_Begin(w)
    \/ \E w \in Workers : ATM_CheckTeam(w)
    \/ \E w \in Workers : ATM_Count(w)
    \/ \E w \in Workers : ATM_Insert(w)
    \/ \E w \in Workers : ATM_Commit(w)

SpecConc == InitConc /\ [][NextConc]_vars

\* --------------------------------------------- the gateway, called directly
\* The mutating operations of one DataHandler, called one after another on
\* its single connection.  The connection is opened with the connector's
\* default autocommit=False, so an insert stays in the open transaction
\* until some call reaches self.__connection.commit().

\* The team id an add_document call may carry; the call does not look the
\* team up, so one value stands for all.
DocumentTeamIds == {str(IdBase)}

\* The user ids a create_team call may carry.
OwnerInputs == {str(IdBase), str(IdBase + 1)}

\* register_user(email, password): insert and commit, or UserMailExists.
GW_RegisterUser ==
    \E email \in Emails, password \in LoginPasswords,
       id \in generate_id(Ids(users)), salt \in PasswordSalts :
        LET r == register_user(email, password, id, salt)
        IN  /\ users' = r.users
            /\ IF r.raised = "" THEN Commit ELSE UNCHANGED docs
            /\ UNCHANGED <<teams, team_members, txn>>

\* create_team(user_id, name): insert and commit, or UserMailExists.
GW_CreateTeam ==
    /\ Cardinality(teams) < MaxTeams
    /\ \E user_id \in OwnerInputs, name \in TeamNames,
          id \in generate_id(Ids(teams)) :
            LET r == DataHandler_create_team(user_id, name, id)
            IN  /\ teams' = r.teams
                /\ IF r.raised = "" THEN Commit ELSE UNCHANGED docs
                /\ UNCHANGED <<users, team_members, txn>>

\* add_team_member(team_id, ...): checks, insert and commit, or an error.
GW_AddTeamMember ==
    \E team_id \in TeamIdInputs, f \in MemberInputs,
       id \in generate_id(Ids(team_members)) :
        LET r == DataHandler_add_team_member(team_id, f, id)
        IN  /\ team_members' = r.team_members
            /\ IF r.raised = "" THEN Commit ELSE UNCHANGED docs
            /\ UNCHANGED <<users, teams, txn>>

\* add_document(team_id, path): the insert; the call returns doc_id with
\* no commit.
GW_AddDocument ==
    /\ Cardinality(documents \cup pending) < MaxDocs
    /\ \E team_id \in DocumentTeamIds, path \in Paths,
          id \in generate_id(Ids(documents \cup pending)) :
            LET r == add_document(team_id, path, id)
            IN  /\ pending' = r.pending
                /\ UNCHANGED <<store, txn, documents>>

NextGateway ==
    \/ GW_RegisterUser
    \/ GW_CreateTeam
    \/ GW_AddTeamMember
    \/ GW_AddDocument

SpecGateway == Init /\ [][NextGateway]_vars

\* ------------------------------------------------------------ properties

\* The rows of a team, counted independently of the gateway's query.
MembersOf(team_id) == { m \in team_members : m.team_id = team_id }

\* The tokens register or login would issue for a user id.
TokensOf(user_id) == { IssueToken(user_id, s) : s \in Salts }

\* The passwords the properties try.
TriedPasswords == RegisterPasswords \cup LoginPasswords \cup {""}

\* C1: every team holds at most four team_members rows, and an
\* add_team_member call that finds four or more rows raises TeamFull and
\* leaves team_members as it was.
C1_AtMostFourMembers ==
    /\ \A t \in teams : Cardinality(MembersOf(t.id)) <= 4
    /\ \A m \in team_members : \E t \in teams : t.id = m.team_id
    /\ \A team_id \in TeamIdInputs, f \in MemberInputs, id \in GenIds :
         Cardinality(MembersOf(team_id)) >= 4 =>
            LET r == DataHandler_add_team_member(team_id, f, id)
            IN  r.raised = "TeamFull" /\ r.team_members = team_members

\* C1 witness: a team is full and the generator still has an unused id, so
\* the next add is rejected by the count and not by a duplicate key.
C1_Witness ==
    \E t \in teams :
        /\ Cardinality(MembersOf(t.id)) = 4
        /\ GenIds \ Ids(team_members) # {}
        /\ \E id \in GenIds \ Ids(team_members), f \in MemberInputs :
             DataHandler_add_team_member(t.id, f, id).raised = "TeamFull"

\* C2: with the statements of concurrent add_team_member calls interleaved,
\* no team ever ends with five or more members.
C2_ConcurrentAddsKeepCapacity ==
    \A t \in teams : Cardinality(MembersOf(t.id)) <= 4

\* The outcome of an add-team-member request by the owner of team t.
OwnerAdds(t) ==
    { [n |-> Cardinality(MembersOf(t.id)), id |-> id, fields |-> f,
       o |-> add_team_member(c, [team_id |-> t.id, fields |-> f], id)] :
        c \in TokensOf(t.user_id), f \in MemberInputs, id \in GenIds }

\* C3 as stated: on a team with fewer than four members every owner's add
\* succeeds, whatever identifier is generated.
C3_EveryAddBelowFourSucceeds ==
    \A t \in teams : \A a \in OwnerAdds(t) :
        a.n < 4 =>
            /\ a.o.response = AddTeamMemberResponse(TRUE, TRUE, TRUE, TRUE, TRUE)
            /\ Cardinality({ m \in a.o.team_members : m.team_id = t.id }) = a.n + 1

\* C3 amended: the owner's add on a team with fewer than four members
\* succeeds and adds exactly one row when the generated member id is not
\* already in team_members; on a team with four members it returns
\* success=false, space_available=false with the other flags true, and the
\* team still has four members.
C3_SequentialAdds ==
    \A t \in teams : \A a \in OwnerAdds(t) :
        /\ (a.n < 4 /\ a.id \notin Ids(team_members)) =>
            /\ a.o.response = AddTeamMemberResponse(TRUE, TRUE, TRUE, TRUE, TRUE)
            /\ a.o.team_members =
                  team_members \cup {MemberRow(a.id, t.id, a.fields)}
            /\ Cardinality({ m \in a.o.team_members : m.team_id = t.id }) = a.n + 1
        /\ a.n >= 4 =>
            /\ a.o.response = AddTeamMemberResponse(FALSE, TRUE, FALSE, TRUE, TRUE)
            /\ a.o.team_members = team_members
            /\ a.n = 4

\* C3 witness: four adds have filled a team, and the fifth is refused for
\* lack of space.
C3_Witness ==
    \E t \in teams :
        /\ Cardinality(MembersOf(t.id)) = 4
        /\ \E a \in OwnerAdds(t) :
             /\ a.id \notin Ids(team_members)
             /\ a.o.response.space_available = FALSE

\* The valid tokens of callers other than the owner of team t.
NonOwnerCookies(t) ==
    { c \in AllCookies :
        /\ c.hashed_user_id \in { hashpw(c.user_id, s) : s \in Salts }
        /\ c.user_id # t.user_id }

\* C4: a team-scoped request with a valid token of a user who does not own
\* the existing team returns logged_in=true, user_team_match=false, inserts
\* no member row and returns no member ids or details.
C4_NonOwnerIsRefused ==
    \A t \in teams : \A c \in NonOwnerCookies(t) :
        /\ \A f \in MemberInputs, id \in GenIds :
             LET o == add_team_member(c, [team_id |-> t.id, fields |-> f], id)
             IN  /\ o.response.unhandled = ""
                 /\ o.response.logged_in
                 /\ ~o.response.user_team_match
                 /\ ~o.response.success
                 /\ o.team_members = team_members
        /\ LET o == get_team_members(c, [team_id |-> t.id])
           IN  /\ o.response.unhandled = ""
               /\ o.response.logged_in
               /\ ~o.response.user_team_match
               /\ o.response.team_member_ids = {}
        /\ \A m \in GenIds :
             LET o == get_team_member_details(c, [team_id |-> t.id,
                                                 team_member_id |-> m])
             IN  /\ o.response.unhandled = ""
                 /\ o.response.logged_in
                 /\ ~o.response.user_team_match
                 /\ o.response.team_member_details = None

\* C4 witness: a team with members, and a registered user who is not its
\* owner and whose requests are refused.
C4_Witness ==
    \E t \in teams, u \in users :
        /\ u.id # t.user_id
        /\ MembersOf(t.id) # {}
        /\ \E c \in TokensOf(u.id) :
             ~get_team_members(c, [team_id |-> t.id]).response.user_team_match

\* The cookies get_id rejects.
RejectedCookies == { c \in AllCookies : get_id(c).raised = "AuthenticationFailure" }

\* An outcome that reports logged_in=false and touched the store neither
\* before nor after the failed verification.
NotLoggedInNoWork(o) ==
    /\ o.response.unhandled = ""
    /\ ~o.response.logged_in
    /\ o.queries = <<>>
    /\ <<o.users, o.teams, o.team_members>> = store

\* C5: on every privileged endpoint a request whose token fails
\* verification returns logged_in=false and makes no gateway call, whatever
\* team id it names.
C5_UnauthenticatedDoesNoWork ==
    \A c \in RejectedCookies :
        /\ \A r \in CreateTeamRequests, id \in GenIds :
             NotLoggedInNoWork(create_team(c, r, id))
        /\ \A r \in AddTeamMemberRequests, id \in GenIds :
             NotLoggedInNoWork(add_team_member(c, r, id))
        /\ NotLoggedInNoWork(get_teams(c))
        /\ \A r \in GetTeamMemberRequests :
             NotLoggedInNoWork(get_team_members(c, r))
        /\ \A r \in GetTeamMemberDetailsRequests :
             NotLoggedInNoWork(get_team_member_details(c, r))

\* The cookies get_id accepts.
AcceptedCookies == { c \in AllCookies : get_id(c).raised = "" }

\* C6: a team-scoped request by an authenticated user that names a team id
\* not in teams ends in a response (never an uncaught InvalidTeamId), and
\* add-team-member marks the team as not created.
C6_MissingTeamIsReported ==
    \A c \in AcceptedCookies : \A team_id \in TeamIdInputs \ Ids(teams) :
        /\ \A f \in MemberInputs, id \in GenIds :
             LET o == add_team_member(c, [team_id |-> team_id, fields |-> f], id)
             IN  o.response.unhandled = "" /\ ~o.response.team_created
        /\ get_team_members(c, [team_id |-> team_id]).response.unhandled = ""
        /\ \A m \in MemberIdInputs :
             get_team_member_details(
                c, [team_id |-> team_id, team_member_id |-> m]
             ).response.unhandled = ""

\* Every user_id and proof a tampered cookie may carry: any identifier or
\* the empty string; any digest, a digest whose salt and hash parts do not
\* belong together, and a digest that does not parse.
AnyUserIds == GenIds \cup {""}
AnyProofs ==
    { [salt |-> s, hash |-> <<h, u>>] : s \in Salts, h \in Salts, u \in AnyUserIds }
    \cup {MalformedDigest}

\* The tokens a successful register issues in this state, with the id the
\* response reports.
RegisterIssues ==
    UNION { LET o == register([email |-> e, password |-> p], id, ps, ts)
            IN  IF o.cookie_op = SetCookies
                THEN { [user |-> o.response.id, token |-> t] : t \in o.set_cookie }
                ELSE {} :
            e \in Emails, p \in TriedPasswords, id \in GenIds,
            ps \in Salts, ts \in Salts }

\* The tokens a successful login issues in this state, with the id of the
\* user who registered the email.
LoginIssues ==
    UNION { LET o == login([email |-> u.email, password |-> p], ts)
            IN  IF o.cookie_op = SetCookies
                THEN { [user |-> u.id, token |-> t] : t \in o.set_cookie }
                ELSE {} :
            u \in users, p \in TriedPasswords, ts \in Salts }

\* The token with its user_id changed, and with its proof changed.
OtherUserId(t) ==
    { [t EXCEPT !.user_id = u] : u \in AnyUserIds \ {t.user_id} }
OtherProof(t) ==
    { [t EXCEPT !.hashed_user_id = d] : d \in AnyProofs \ {t.hashed_user_id} }

\* C7 as stated: the issued pair verifies as its user, and every pair that
\* differs from it in one field is rejected.
C7_AnyChangedPairIsRejected ==
    \A i \in RegisterIssues \cup LoginIssues :
        /\ get_id(i.token) = Return(i.user)
        /\ \A c \in OtherUserId(i.token) \cup OtherProof(i.token) :
             get_id(c).raised = "AuthenticationFailure"

\* C7 amended: the issued pair verifies as its user; the same proof with
\* another user_id is rejected; another proof with the same user_id is
\* rejected unless it is itself a bcrypt digest of that user_id under
\* another salt (as a second login issues), which verifies as the user.
C7_IssuedTokenVerifies ==
    \A i \in RegisterIssues \cup LoginIssues :
        /\ get_id(i.token) = Return(i.user)
        /\ \A c \in OtherUserId(i.token) :
             get_id(c).raised = "AuthenticationFailure"
        /\ \A c \in OtherProof(i.token) :
             IF c.hashed_user_id \in
                    { [salt |-> s, hash |-> <<s, i.user>>] : s \in Salts }
             THEN get_id(c) = Return(i.user)
             ELSE get_id(c).raised = "AuthenticationFailure"

\* C7 witness: a user is registered and a login with their password issues
\* a token.
C7_Witness ==
    /\ users # {}
    /\ LoginIssues # {}
    /\ \E i \in LoginIssues : \E u \in users : u.id = i.user

\* A cookie pair that must not authenticate: the proof does not parse, the
\* proof is not a digest of the user_id, or a field is empty.
BadPair(c) ==
    \/ c.hashed_user_id = MalformedDigest
    \/ c.hashed_user_id \notin
            { [salt |-> s, hash |-> <<s, c.user_id>>] : s \in Salts }
    \/ c.user_id = ""

\* C8: every endpoint that reads the token fails closed on a bad pair:
\* get_id raises AuthenticationFailure and /api/get-id answers
\* success=false, never an uncaught error and never an authenticated result.
C8_VerificationFailsClosed ==
    \A c \in { [user_id |-> u, hashed_user_id |-> d] :
                 u \in AnyUserIds, d \in AnyProofs } :
        BadPair(c) =>
            /\ get_id(c).raised = "AuthenticationFailure"
            /\ get_current_id(c).response.unhandled = ""
            /\ ~get_current_id(c).response.success

C10_AtRegistration ==
    \A e \in Emails, p \in TriedPasswords, id \in GenIds,
       ps \in Salts, ts \in Salts :
        LET o == register([email |-> e, password |-> p], id, ps, ts)
        IN  (o.response.success) =>
                \A q \in TriedPasswords :
                    verify_password_on(o.users, e, q) = Return(q = p)

\* C10, later: no step changes or removes a users row, and none adds a
\* second row for a registered email.
C10_RowsKept ==
    /\ \A u \in users : u \in users'
    /\ \A v \in users' : (\E u \in users : u.email = v.email) => v \in users

\* C10: register then verify_password returns true for the registered
\* password and false for any other, in every later state.
C10_RegisterThenVerify == [](C10_AtRegistration) /\ [][C10_RowsKept]_vars

\* C10 witness: a registered user whose password verifies and whose other
\* passwords do not.
C10_Witness ==
    \E u \in users :
        /\ verify_password(u.email, "password1") = Return(TRUE)
        /\ verify_password(u.email, "password2") = Return(FALSE)

\* The users rows registered under an email, and whether a password is the
\* one a row was registered with.
RegisteredTo(email) == { u \in users : u.email = email }
PasswordIs(u, password) == u.password = hashpw(password, u.password.salt)

\* The emails the properties try: those of the requests and one that no
\* request registers.
TriedEmails == Emails \cup {"nobody@x.com"}

\* C11: login answers success=true and sets the token of user U exactly
\* when the email is registered to U and the password is U's; a wrong
\* password for a registered email answers success=false,
\* email_correct=true, password_correct=false and sets no cookie; an
\* unregistered email answers success=false, email_correct=false and sets
\* no cookie.
C11_LoginContract ==
    \A e \in TriedEmails, p \in TriedPasswords, ts \in Salts :
        LET o == login([email |-> e, password |-> p], ts)
            reg == RegisteredTo(e)
            matches == \E u \in reg : PasswordIs(u, p)
        IN  /\ o.response.unhandled = ""
            /\ o.response.success <=> matches
            /\ matches =>
                /\ o.response = Body("login",
                        [success |-> TRUE, email_correct |-> TRUE,
                         password_correct |-> TRUE])
                /\ o.cookie_op = SetCookies
                /\ \E u \in reg :
                     /\ o.set_cookie = {IssueToken(u.id, ts)}
                     /\ \A t \in o.set_cookie : get_id(t) = Return(u.id)
            /\ (reg # {} /\ ~matches) =>
                /\ o.response = Body("login",
                        [success |-> FALSE, email_correct |-> TRUE,
                         password_correct |-> FALSE])
                /\ o.cookie_op = KeepCookies
                /\ o.set_cookie = {}
            /\ reg = {} =>
                /\ ~o.response.success
                /\ ~o.response.email_correct
                /\ o.cookie_op = KeepCookies
                /\ o.set_cookie = {}

\* C11 witness: two users are registered; one of them logs in with their
\* password and is issued their own token, and is refused with another
\* password.
C11_Witness ==
    /\ Cardinality(users) = 2
    /\ \E u \in users :
         /\ login([email |-> u.email, password |-> "password1"], "s2").set_cookie
                = {IssueToken(u.id, "s2")}
         /\ ~login([email |-> u.email, password |-> "password2"], "s2")
                .response.password_correct

\* C12: when the store rejects the teams insert, create_team ends with a
\* typed failure of its own that is not the duplicate-email error, the
\* create-team request ends in a response and not in an uncaught
\* exception, and teams is as it was.
C12_RejectedInsertIsTypedFailure ==
    \A c \in AcceptedCookies, r \in CreateTeamRequests, id \in GenIds :
        LET row == [id |-> id, user_id |-> c.user_id, name |-> r.team_name]
            g == DataHandler_create_team(c.user_id, r.team_name, id)
            o == create_team(c, r, id)
        IN  ~TeamsAccepts(row) =>
                /\ g.raised \notin {"", "UserMailExists"}
                /\ g.teams = teams
                /\ o.response.unhandled = ""
                /\ ~o.response.success
                /\ o.teams = teams

\* The exceptions a rejected insert surfaces as: the store's IntegrityError,
\* or the UserMailExists that register_user and create_team raise from it.
UniquenessViolation == {"IntegrityError", "UserMailExists"}

\* A request outcome that reports success to the client.
ReportsSuccess(o) == o.response.unhandled = "" /\ o.response.success

\* Collisions of a generated user id or team id: the gateway call fails
\* with the uniqueness violation and leaves the table as it was, and the
\* request that made the call does not report success and sets no cookie.
CollisionOnUsersAndTeams ==
    /\ \A e \in TriedEmails, p \in LoginPasswords, id \in Ids(users),
          ps \in PasswordSalts, ts \in Salts :
         LET g == register_user(e, p, id, ps)
             o == register([email |-> e, password |-> p], id, ps, ts)
         IN  /\ g.raised \in UniquenessViolation
             /\ g.users = users
             /\ ~ReportsSuccess(o)
             /\ o.users = users
             /\ o.set_cookie = {}
    /\ \A c \in AcceptedCookies, r \in CreateTeamRequests, id \in Ids(teams) :
         LET g == DataHandler_create_team(c.user_id, r.team_name, id)
             o == create_team(c, r, id)
         IN  /\ g.raised \in UniquenessViolation
             /\ g.teams = teams
             /\ ~ReportsSuccess(o)
             /\ o.teams = teams

\* C13 as stated: whenever the generated identifier is that of an existing
\* row of the table, the operation fails with the uniqueness violation,
\* leaves the table as it was and does not report success.
C13_CollisionIsUniquenessViolation ==
    /\ CollisionOnUsersAndTeams
    /\ \A t \in teams, f \in MemberInputs, id \in Ids(team_members) :
         LET g == DataHandler_add_team_member(t.id, f, id)
         IN  /\ g.raised \in UniquenessViolation
             /\ g.team_members = team_members

\* C13 amended: a colliding user id or team id fails with the uniqueness
\* violation; a colliding member id fails with it when add_team_member
\* reaches its insert (the team exists and has fewer than four members),
\* and with InvalidTeamId or TeamFull when a check made before the insert
\* rejects the call.  In every case the table is as it was, no second
\* identifier is tried and the request does not report success.
C13_CollisionFailsWithoutWrite ==
    /\ CollisionOnUsersAndTeams
    /\ \A team_id \in TeamIdInputs, f \in MemberInputs,
          id \in Ids(team_members) :
         LET g == DataHandler_add_team_member(team_id, f, id)
         IN  /\ g.team_members = team_members
             /\ g.raised =
                  IF \A t \in teams : t.id # team_id THEN "InvalidTeamId"
                  ELSE IF Cardinality(MembersOf(team_id)) >= 4 THEN "TeamFull"
                  ELSE "IntegrityError"
    /\ \A t \in teams, f \in MemberInputs, id \in Ids(team_members) :
         \A c \in TokensOf(t.user_id) :
            LET o == add_team_member(c, [team_id |-> t.id, fields |-> f], id)
            IN  ~ReportsSuccess(o) /\ o.team_members = team_members

\* C13 witness: users, teams and team_members each hold a row; a team with
\* room refuses a colliding member id with the store's error, and a full
\* team refuses it with TeamFull.
C13_Witness ==
    /\ users # {}
    /\ \E t \in teams, m \in team_members, f \in MemberInputs :
         /\ Cardinality(MembersOf(t.id)) < 4
         /\ DataHandler_add_team_member(t.id, f, m.id).raised = "IntegrityError"
         /\ DataHandler_create_team(t.user_id, t.name, t.id).raised
                = "UserMailExists"
    /\ \E t \in teams, m \in team_members, f \in MemberInputs :
         DataHandler_add_team_member(t.id, f, m.id).raised = "TeamFull"

\* C14: get_team_member_details(team_id, member_id) returns the details of
\* the row whose id is member_id and whose team_id is team_id, and raises
\* NoSuchTeamMember when there is no such row; the owner of a team who
\* names a member of another team is answered team_member_exists=false
\* with no details.
C14_DetailsOnlyWithinTeam ==
    /\ \A team_id \in TeamIdInputs, member_id \in GenIds :
         LET d == DataHandler_get_team_member_details(team_id, member_id)
         IN  IF \E m \in team_members : m.id = member_id /\ m.team_id = team_id
             THEN /\ d.raised = ""
                  /\ \E m \in team_members :
                       /\ m.id = member_id
                       /\ m.team_id = team_id
                       /\ d.value = Details(m)
             ELSE d.raised = "NoSuchTeamMember"
    /\ \A a \in teams, m \in team_members :
         m.team_id # a.id =>
            \A c \in TokensOf(a.user_id) :
                get_team_member_details(
                    c, [team_id |-> a.id, team_member_id |-> m.id]
                ).response =
                    GetTeamMemberDetailsResponse(None, FALSE, TRUE, TRUE, FALSE)

\* C14 witness: two teams, a member of the second, and the owner of the
\* first asking for that member under their own team id.
C14_Witness ==
    \E a \in teams, b \in teams, m \in team_members :
        /\ a.id # b.id
        /\ m.team_id = b.id
        /\ \E c \in TokensOf(a.user_id) :
             ~get_team_member_details(
                 c, [team_id |-> a.id, team_member_id |-> m.id]
              ).response.team_member_exists
        /\ \E c \in TokensOf(b.user_id) :
             get_team_member_details(
                 c, [team_id |-> b.id, team_member_id |-> m.id]
             ).response.team_member_details = Details(m)

\* C15: after every mutating gateway call the connection holds no
\* uncommitted row: the row a call inserted is committed when the call
\* returns its identifier, and none waits for a later call's commit.
C15_NothingLeftPending == pending = {}

\* A request outcome that is a failure: success=false, or an exception no
\* handler caught.
Failure(o) == o.response.unhandled # "" \/ ~o.response.success

\* The outcome leaves users, teams and team_members as they are.
NoWrite(o) == <<o.users, o.teams, o.team_members>> = store

\* A failure has written nothing.
FailureKeepsStore(o) == Failure(o) => NoWrite(o)

\* C16: every request that ends in a failure leaves users, teams and
\* team_members exactly as they were, and so does every gateway call that
\* raises.
C16_FailureWritesNothing ==
    /\ \A c \in RequestCookies :
         /\ FailureKeepsStore(get_current_id(c))
         /\ FailureKeepsStore(get_teams(c))
         /\ \A r \in CreateTeamRequests, id \in GenIds :
              FailureKeepsStore(create_team(c, r, id))
         /\ \A r \in AddTeamMemberRequests, id \in GenIds :
              FailureKeepsStore(add_team_member(c, r, id))
         /\ \A r \in GetTeamMemberRequests :
              FailureKeepsStore(get_team_members(c, r))
         /\ \A r \in GetTeamMemberDetailsRequests :
              FailureKeepsStore(get_team_member_details(c, r))
    /\ \A e \in TriedEmails, p \in TriedPasswords :
         /\ \A id \in GenIds, ps \in PasswordSalts :
              /\ FailureKeepsStore(register([email |-> e, password |-> p],
                                            id, ps, "s1"))
              /\ LET g == register_user(e, p, id, ps)
                 IN  g.raised # "" => g.users = users
         /\ FailureKeepsStore(login([email |-> e, password |-> p], "s1"))
    /\ \A u \in OwnerInputs, n \in TeamNames, id \in GenIds :
         LET g == DataHandler_create_team(u, n, id)
         IN  g.raised # "" => g.teams = teams
    /\ \A t \in TeamIdInputs, f \in MemberInputs, id \in GenIds :
         LET g == DataHandler_add_team_member(t, f, id)
         IN  g.raised # "" => g.team_members = team_members

\* C16 witness: a registered user owns a full team; their next add is
\* refused as TeamFull, a second registration of their email is refused,
\* and a login with a wrong password is refused.
C16_Witness ==
    \E t \in teams, u \in users :
        /\ u.id = t.user_id
        /\ \E c \in TokensOf(u.id), f \in MemberInputs,
              id \in GenIds \ Ids(team_members) :
             add_team_member(c, [team_id |-> t.id, fields |-> f], id).response
                = AddTeamMemberResponse(FALSE, TRUE, FALSE, TRUE, TRUE)
        /\ \E id \in GenIds \ Ids(users) :
             ~register([email |-> u.email, password |-> "password1"],
                       id, "s1", "s1").response.email_unique
        /\ ~login([email |-> u.email, password |-> "password2"], "s1")
               .response.success

\* C17, at creation: a create-team request that changes teams adds one row
\* under an unused team id, owned by the user id its token verifies; and no
\* two rows of teams share a team id, so a team has one owner.
C17_CreatedByCaller ==
    /\ \A a \in teams, b \in teams : a.id = b.id => a = b
    /\ \A c \in AllCookies, r \in CreateTeamRequests, id \in GenIds :
         LET o == create_team(c, r, id)
         IN  (o.teams # teams \/ ReportsSuccess(o)) =>
                /\ get_id(c).raised = ""
                /\ id \notin Ids(teams)
                /\ o.teams = teams \cup
                      { [id |-> id, user_id |-> get_id(c).value,
                         name |-> r.team_name] }
                /\ o.users = users

\* C17, later: a step keeps every teams row and every users row as it is,
\* adds rows only under unused ids, and adds a teams row only as some
\* create-team request does.
C17_RowsKept ==
    /\ teams \subseteq teams'
    /\ \A t \in teams' \ teams : t.id \notin Ids(teams)
    /\ teams' # teams =>
         \E c \in AllCookies, r \in CreateTeamRequests, id \in GenIds :
            teams' = create_team(c, r, id).teams
    /\ users \subseteq users'
    /\ \A u \in users' \ users : u.id \notin Ids(users)

\* C17: every team has exactly one owner, the user verified from the token
\* of the create-team request that made it, and no later step changes the
\* owner or removes the team; a users row's id, email and password digest
\* never change and the row is never removed.
C17_OwnerForLife == [](C17_CreatedByCaller) /\ [][C17_RowsKept]_vars

\* C17 witness: two users each own a team, and members have been added to
\* a team since it was created.
C17_Witness ==
    /\ Cardinality(users) = 2
    /\ \E a \in teams, b \in teams :
         /\ a.user_id # b.user_id
         /\ a.user_id \in Ids(users)
         /\ b.user_id \in Ids(users)
         /\ MembersOf(a.id) # {}

\* C18: get-teams with a token that verifies as U answers success=true,
\* logged_in=true and a list that holds a team exactly when its owner is U:
\* every team of U with its id and name, no team of another user, and the
\* empty list when U owns none.
C18_GetTeamsListsOwnTeams ==
    \A c \in AcceptedCookies :
        LET o == get_teams(c)
            listed == o.response.team_ids
        IN  /\ o.response.unhandled = ""
            /\ o.response.success
            /\ o.response.logged_in
            /\ \A t \in teams :
                 (t.user_id = c.user_id) <=>
                    (\E l \in listed : l.id = t.id /\ l.name = t.name)
            /\ \A l \in listed :
                 \E t \in teams : t.id = l.id /\ t.user_id = c.user_id
            /\ (\A t \in teams : t.user_id # c.user_id) => listed = {}
            /\ NoWrite(o)

\* C18 witness: one user owns a team and is listed exactly that team while
\* another team belongs to someone else, and a caller who owns no team is
\* listed none.
C18_Witness ==
    /\ \E a \in teams, b \in teams :
         /\ a.user_id # b.user_id
         /\ \E c \in TokensOf(a.user_id) :
              get_teams(c).response.team_ids = {[id |-> a.id, name |-> a.name]}
    /\ \E c \in AcceptedCookies :
         /\ \A t \in teams : t.user_id # c.user_id
         /\ get_teams(c).response.team_ids = {}

\* C19: the register response carries email_unique=false exactly when the
\* submitted email is already in users, whatever the password and whatever
\* identifier is generated.
C19_EmailUniqueIsExact ==
    \A e \in TriedEmails, p \in TriedPasswords, ps \in Salts, ts \in Salts :
        \A id \in generate_id(Ids(users)) :
            LET o == register([email |-> e, password |-> p], id, ps, ts)
            IN  /\ o.response.unhandled = ""
                /\ o.response.email_unique <=> (RegisteredTo(e) = {})

\* Every cookie pair the properties present.
AnyCookies ==
    AllCookies \cup { [user_id |-> u, hashed_user_id |-> d] :
                        u \in AnyUserIds, d \in AnyProofs }

\* C20, in a state: get_id accepts a pair exactly when the proof is a
\* bcrypt digest of the user_id, whether or not users holds that id, and
\* returns the user_id; logout writes nothing to the store.
C20_VerdictFromPairOnly ==
    /\ \A c \in AnyCookies :
         IF c.hashed_user_id \in
                { [salt |-> s, hash |-> <<s, c.user_id>>] : s \in Salts }
         THEN get_id(c) = Return(c.user_id)
         ELSE get_id(c) = Raise("AuthenticationFailure")
    /\ NoWrite(logout)
    /\ logout.queries = <<>>

\* A pair that verifies and a pair that does not.
SamplePairs ==
    { IssueToken(str(IdBase), "s1"),
      [user_id |-> str(IdBase), hashed_user_id |-> hashpw(str(IdBase + 1), "s2")] }

\* C20, across a step: a pair gets the verdict it got before the step,
\* from get_id and from /api/get-id.
C20_VerdictKept ==
    \A c \in SamplePairs :
        /\ get_id(c)' = get_id(c)
        /\ get_current_id(c).response' = get_current_id(c).response

\* C20: token verification depends on the presented pair alone: a pair
\* that verified verifies in every later state, after logout and with or
\* without a users row of that id, and a pair that failed fails in every
\* later state.
C20_VerificationIsStateless ==
    [](C20_VerdictFromPairOnly) /\ [][C20_VerdictKept]_vars

\* C20 witness: users and teams hold rows; a pair for a registered id and a
\* pair for an id no user has both verify, and a pair with another id's
\* proof fails.
C20_Witness ==
    /\ teams # {}
    /\ \E u \in users, v \in CookieUserIds \ Ids(users) :
         /\ get_id(IssueToken(u.id, "s1")) = Return(u.id)
         /\ get_id(IssueToken(v, "s2")) = Return(v)
         /\ get_id([user_id |-> u.id, hashed_user_id |-> hashpw(v, "s1")]).raised
                = "AuthenticationFailure"

====
